---- MODULE Spec2Model ----
(***************************************************************************)
(* Model of src/src/row.js (Backgrid.Row and Backgrid.SelectableRow).      *)
(*                                                                         *)
(* Spec     : one Row observing one ColumnSet: construction, the "add" and *)
(*            "remove" listeners, render() and remove().                   *)
(* SpecSel  : a fixed set of sibling SelectableRows under primary and      *)
(*            secondary clicks.                                            *)
(*                                                                         *)
(* Sequences are 1-based in TLA+; every index named after a JavaScript     *)
(* index (i, index, k) is 0-based as in the source.                        *)
(***************************************************************************)
EXTENDS Integers, Sequences, FiniteSets, TLC

\* ---------------------------------------------------------------- bounds
NumColumns == 3        \* distinct column descriptors the host can use
MaxInitLen == 2        \* longest options.columns handed to the constructor
MaxCells == 3          \* cells one Row creates over its lifetime
MaxRowRemoves == 2     \* calls of Row.remove()
NumRows == 3           \* sibling SelectableRows
MaxHostOps == 1        \* ColumnSet changes after the Row stopped listening

ColumnIds == 1..NumColumns
CellIds == 1..MaxCells
Rows == 1..NumRows

\* ------------------------------------------------------- Row: state
VARIABLES
  phase,        \* "new" before the constructor, then "ready" or "failed"
  optColumns,   \* options.columns was given
  optModel,     \* options.model was given
  columns,      \* this.columns: the ColumnSet, a sequence of column ids
  cells,        \* this.cells: sequence of cell ids
  cellColumn,   \* cell id -> the column it was made for (0: not made)
  nextCell,     \* id of the next cell makeCell creates
  removeCalls,  \* cell id -> number of calls of that cell's remove()
  children,     \* this.$el.children(): nodes, each named by its cell id
  rendered,     \* render() has run at least once
  listening,    \* the listenTo subscriptions are active
  rowRemoves,   \* calls of Row.remove() so far
  lastOp,       \* the operation that produced this state
  lastIndex,    \* the index the add/remove handler just worked at (else -1)
  renderStreak, \* render() calls since the last other operation (up to 2)
  removeLog,    \* the calls the remove() just run made, in order (else <<>>)
  hostOps       \* ColumnSet changes made after the Row stopped listening

\* ------------------------------------------------ SelectableRow: state
VARIABLES
  focused,      \* row -> attribute data-row-focused ("" when absent)
  selected,     \* row -> attribute data-row-selected ("" when absent)
  bg,           \* row -> computed background-color
  orig,         \* row -> background-color before any interaction
  everClicked,  \* some row has received a primary click
  selOp,        \* "none", "click" or "rclick": the last handler
  selRow,       \* the row the last handler ran on (0: none)
  prevBg,       \* bg before the last handler
  prevSelected, \* selected before the last handler
  prevFocused   \* focused before the last handler

rowVars == <<phase, optColumns, optModel, columns, cells, cellColumn, nextCell,
             removeCalls, children, rendered, listening, rowRemoves, lastOp,
             lastIndex, renderStreak, removeLog, hostOps>>
selVars == <<focused, selected, bg, orig, everClicked, selOp, selRow, prevBg,
             prevSelected, prevFocused>>
vars == <<rowVars, selVars>>

\* ------------------------------------------------------ array helpers
Min(a, b) == IF a < b THEN a ELSE b
Max(a, b) == IF a > b THEN a ELSE b

\* Array.prototype.splice start normalisation
SpliceStart(s, i) == IF i < 0 THEN Max(Len(s) + i, 0) ELSE Min(i, Len(s))

\* cells.splice(i, 0, e)
SpliceIn(s, i, e) ==
  LET st == SpliceStart(s, i)
  IN SubSeq(s, 1, st) \o <<e>> \o SubSeq(s, st + 1, Len(s))

\* cells.splice(i, 1)
SpliceOut(s, i) ==
  LET st == SpliceStart(s, i)
  IN SubSeq(s, 1, st) \o SubSeq(s, st + 2, Len(s))

\* columns.indexOf(column): 0-based, -1 when absent
IndexOf(s, e) ==
  IF \E j \in 1..Len(s) : s[j] = e
  THEN (CHOOSE j \in 1..Len(s) : s[j] = e /\ \A h \in 1..(j - 1) : s[h] # e) - 1
  ELSE -1

Without(s, e) == SelectSeq(s, LAMBDA x : x # e)

NoDup(s) == \A a, b \in 1..Len(s) : a # b => s[a] # s[b]
SeqsUpTo(S, n) == UNION {[1..m -> S] : m \in 0..n}

\* ------------------------------------------------------- DOM helpers
\* the root node of a cell (cell.render().$el / .el): one node per cell
El(cell) == cell

\* $el.prepend(node)
Prepend(ch, node) == <<node>> \o Without(ch, node)

\* $el.append(node) and fragment.appendChild(node): a node already in the
\* list is moved, not duplicated
AppendChild(ch, node) == Without(ch, node) \o <<node>>

\* .after(node) in place of .before(node)
EqAfter(ch, i, node) ==
  LET j == IF i < 0 THEN Len(ch) + i ELSE i
  IN IF j >= 0 /\ j < Len(ch)
     THEN SubSeq(ch, 1, j + 1) \o <<node>> \o SubSeq(ch, j + 2, Len(ch))
     ELSE ch

\* $el.children().eq(i).before(node): eq(i) counts from the end for i < 0
\* and is the empty set when i is out of range, and then nothing is inserted
EqBefore(ch, i, node) ==
  LET j == IF i < 0 THEN Len(ch) + i ELSE i
  IN IF j >= 0 /\ j < Len(ch)
     THEN SubSeq(ch, 1, j) \o <<node>> \o SubSeq(ch, j + 1, Len(ch))
     ELSE ch

\* cell.remove(): the cell's node leaves whatever container holds it
DetachEl(ch, cell) == Without(ch, El(cell))

RECURSIVE DetachAll(_, _)
DetachAll(ch, cs) ==
  IF cs = <<>> THEN ch ELSE DetachAll(DetachEl(ch, Head(cs)), Tail(cs))

\* the loop of render() stopping one cell early
RECURSIVE FragmentShort(_, _)
FragmentShort(frag, cs) ==
  IF Len(cs) <= 1 THEN frag
  ELSE FragmentShort(AppendChild(frag, El(Head(cs))), Tail(cs))

\* the loop of render(): fragment.appendChild(this.cells[i].render().el)
RECURSIVE Fragment(_, _)
Fragment(frag, cs) ==
  IF cs = <<>> THEN frag ELSE Fragment(AppendChild(frag, El(Head(cs))), Tail(cs))

\* render(): $el.empty(), the fragment loop, el.appendChild(fragment)
RenderedChildren(ch, cs) ==
  LET emptied == <<>>
      frag == Fragment(<<>>, cs)
  IN DetachAll(emptied, frag) \o frag

\* the add listener pushing the new cell instead of splicing it in at i
AddedCellsPushed(cs, i, cell) == Append(cs, cell)

\* cells.splice(i, 0, cell) of the add listener
AddedCells(cs, i, cell) == SpliceIn(cs, i, cell)

\* a lookup that counts a negative index from the end, as splice does
RemovedCellFromEnd(cs, index) ==
  LET j == IF index < 0 THEN Len(cs) + index ELSE index
  IN IF j >= 0 /\ j < Len(cs) THEN cs[j + 1] ELSE 0

\* cells[opts.index] of the remove listener (0: undefined)
RemovedCell(cs, index) ==
  IF index >= 0 /\ index < Len(cs) THEN cs[index + 1] ELSE 0

\* splice(opts.index) without the delete count drops every later cell too
RemovedCellsToEnd(cs, index) == SubSeq(cs, 1, SpliceStart(cs, index))

\* cells.splice(opts.index, 1) of the remove listener
RemovedCells(cs, index) == SpliceOut(cs, index)

\* the add listener always appending the new node
PlaceAddedLast(ch, i, colsLen, node) == AppendChild(ch, node)

\* argument lists remove() is called with: none, or a "silent" flag
RemoveArgs == {<<>>, <<"silent">>}

\* the cell loop calling cell.remove() without handing the arguments on
RECURSIVE CellRemoveCallsBare(_, _)
CellRemoveCallsBare(cs, args) ==
  IF cs = <<>> THEN <<>>
  ELSE <<[target |-> Head(cs), args |-> <<>>]>> \o CellRemoveCallsBare(Tail(cs), args)

\* the loop of remove(): cell.remove.apply(cell, arguments), cell by cell
RECURSIVE CellRemoveCalls(_, _)
CellRemoveCalls(cs, args) ==
  IF cs = <<>> THEN <<>>
  ELSE <<[target |-> Head(cs), args |-> args]>> \o CellRemoveCalls(Tail(cs), args)

\* remove(): the cell loop, then Backbone.View.prototype.remove.apply(this,
\* arguments), written as target 0
RemoveCallLog(cs, args) ==
  CellRemoveCalls(cs, args) \o <<[target |-> 0, args |-> args]>>

\* the three-way placement of the add listener
PlaceAdded(ch, i, colsLen, node) ==
  IF i = 0 THEN Prepend(ch, node)
  ELSE IF i = colsLen - 1 THEN AppendChild(ch, node)
  ELSE EqBefore(ch, i, node)

\* ------------------------------------------------------- Row: actions
RowInit ==
  /\ phase = "new"
  /\ optColumns = FALSE
  /\ optModel = FALSE
  /\ columns = <<>>
  /\ cells = <<>>
  /\ cellColumn = [c \in CellIds |-> 0]
  /\ nextCell = 1
  /\ removeCalls = [c \in CellIds |-> 0]
  /\ children = <<>>
  /\ rendered = FALSE
  /\ listening = FALSE
  /\ rowRemoves = 0
  /\ lastOp = "none"
  /\ lastIndex = -1
  /\ renderStreak = 0
  /\ removeLog = <<>>
  /\ hostOps = 0

\* new Columns(columns): an absent list gives an empty collection
NormalizeColumns(given, cols) == IF given THEN cols ELSE <<>>

\* new Row(options).  cols is options.columns when it is given; cellThrows
\* says whether the cell constructor rejects an undefined model.
Initialize(hasColumns, cols, hasModel, cellThrows) ==
  LET cs == NormalizeColumns(hasColumns, cols)
      fails == ~hasModel /\ cellThrows /\ Len(cs) > 0
  IN /\ phase = "new"
     /\ optColumns' = hasColumns
     /\ optModel' = hasModel
     /\ columns' = cs
     /\ cells' = IF fails THEN <<>> ELSE [j \in 1..Len(cs) |-> j]
     /\ cellColumn' = IF fails THEN cellColumn
                      ELSE [c \in CellIds |-> IF c <= Len(cs) THEN cs[c] ELSE 0]
     /\ nextCell' = IF fails THEN 1 ELSE Len(cs) + 1
     /\ listening' = ~fails
     /\ phase' = IF fails THEN "failed" ELSE "ready"
     /\ lastOp' = "init"
     /\ removeLog' = <<>>
     /\ UNCHANGED hostOps
     /\ renderStreak' = 0
     /\ UNCHANGED <<removeCalls, children, rendered, rowRemoves, lastIndex>>
     /\ UNCHANGED selVars

\* the host adds one column at position at; the "add" listener runs
AddColumn(column, at) ==
  LET colsAfter == SpliceIn(columns, at, column)
      i == IndexOf(colsAfter, column)
      cell == nextCell
  IN /\ phase = "ready"
     /\ listening
     /\ nextCell <= MaxCells
     /\ \A j \in 1..Len(columns) : columns[j] # column
     /\ at \in 0..Len(columns)
     /\ columns' = colsAfter
     /\ cellColumn' = [cellColumn EXCEPT ![cell] = column]
     /\ nextCell' = nextCell + 1
     /\ cells' = AddedCells(cells, i, cell)
     /\ children' = PlaceAdded(children, i, Len(colsAfter), El(cell))
     /\ lastOp' = "add"
     /\ removeLog' = <<>>
     /\ UNCHANGED hostOps
     /\ lastIndex' = i
     /\ renderStreak' = 0
     /\ UNCHANGED <<phase, optColumns, optModel, removeCalls, rendered,
                    listening, rowRemoves>>
     /\ UNCHANGED selVars

\* the body of the "remove" listener for opts.index = index: calling
\* remove() on an undefined cells[index] throws before the splice
RemoveListener(index) ==
  /\ IF RemovedCell(cells, index) # 0
     THEN /\ removeCalls' = [removeCalls EXCEPT ![RemovedCell(cells, index)] = @ + 1]
          /\ children' = DetachEl(children, RemovedCell(cells, index))
          /\ cells' = RemovedCells(cells, index)
          /\ lastOp' = "remove"
     ELSE /\ UNCHANGED <<removeCalls, children, cells>>
          /\ lastOp' = "removeError"
  /\ lastIndex' = index

\* the host removes the column at position index; the "remove" listener runs
RemoveColumn(index) ==
  /\ phase = "ready"
  /\ listening
  /\ index \in 0..(Len(columns) - 1)
  /\ columns' = SpliceOut(columns, index)
  /\ RemoveListener(index)
  /\ renderStreak' = 0
  /\ removeLog' = <<>>
  /\ UNCHANGED hostOps
  /\ UNCHANGED <<phase, optColumns, optModel, cellColumn, nextCell, rendered,
                 listening, rowRemoves>>
  /\ UNCHANGED selVars

\* a "remove" notification whose opts.index does not name a cell
RemovedOutOfRange(index) ==
  /\ phase = "ready"
  /\ listening
  /\ index < 0 \/ index >= Len(cells)
  /\ RemoveListener(index)
  /\ renderStreak' = 0
  /\ removeLog' = <<>>
  /\ UNCHANGED <<phase, optColumns, optModel, columns, cellColumn, nextCell,
                 rendered, listening, rowRemoves, hostOps>>
  /\ UNCHANGED selVars

\* the host adds two columns in one call at position at: both are in the
\* ColumnSet before the first "add" notification, and the listener runs for
\* the first and then for the second
AddColumns(column1, column2, at) ==
  LET colsAfter == SpliceIn(SpliceIn(columns, at, column1), at + 1, column2)
      i1 == IndexOf(colsAfter, column1)
      cell1 == nextCell
      cells1 == AddedCells(cells, i1, cell1)
      children1 == PlaceAdded(children, i1, Len(colsAfter), El(cell1))
      i2 == IndexOf(colsAfter, column2)
      cell2 == nextCell + 1
  IN /\ phase = "ready"
     /\ listening
     /\ nextCell + 1 <= MaxCells
     /\ column1 # column2
     /\ \A j \in 1..Len(columns) : columns[j] # column1 /\ columns[j] # column2
     /\ at \in 0..Len(columns)
     /\ columns' = colsAfter
     /\ cellColumn' = [cellColumn EXCEPT ![cell1] = column1, ![cell2] = column2]
     /\ nextCell' = nextCell + 2
     /\ cells' = AddedCells(cells1, i2, cell2)
     /\ children' = PlaceAdded(children1, i2, Len(colsAfter), El(cell2))
     /\ lastOp' = "addBatch"
     /\ lastIndex' = i2
     /\ renderStreak' = 0
     /\ removeLog' = <<>>
     /\ UNCHANGED <<phase, optColumns, optModel, removeCalls, rendered,
                    listening, rowRemoves, hostOps>>
     /\ UNCHANGED selVars

\* render() that first calls remove() on the cells it is about to re-attach
RenderRemovingCells ==
  /\ phase = "ready"
  /\ removeCalls' = [c \in CellIds |->
        removeCalls[c] + Cardinality({j \in 1..Len(cells) : cells[j] = c})]
  /\ children' = RenderedChildren(children, cells)
  /\ rendered' = TRUE
  /\ lastOp' = "render"
  /\ removeLog' = <<>>
  /\ UNCHANGED hostOps
  /\ renderStreak' = Min(renderStreak + 1, 2)
  /\ lastIndex' = -1
  /\ UNCHANGED <<phase, optColumns, optModel, columns, cells, cellColumn,
                 nextCell, listening, rowRemoves>>
  /\ UNCHANGED selVars

\* render()
Render ==
  /\ phase = "ready"
  /\ children' = RenderedChildren(children, cells)
  /\ rendered' = TRUE
  /\ lastOp' = "render"
  /\ removeLog' = <<>>
  /\ UNCHANGED hostOps
  /\ renderStreak' = Min(renderStreak + 1, 2)
  /\ lastIndex' = -1
  /\ UNCHANGED <<phase, optColumns, optModel, columns, cells, cellColumn,
                 nextCell, removeCalls, listening, rowRemoves>>
  /\ UNCHANGED selVars

\* remove() that also empties this.cells
RowRemoveClearing(args) ==
  /\ phase = "ready"
  /\ rowRemoves < MaxRowRemoves
  /\ removeCalls' = [c \in CellIds |->
        removeCalls[c] + Cardinality({j \in 1..Len(cells) : cells[j] = c})]
  /\ children' = DetachAll(children, cells)
  /\ cells' = <<>>
  /\ listening' = FALSE
  /\ rowRemoves' = rowRemoves + 1
  /\ lastOp' = "rowRemove"
  /\ removeLog' = RemoveCallLog(cells, args)
  /\ UNCHANGED hostOps
  /\ renderStreak' = 0
  /\ lastIndex' = -1
  /\ UNCHANGED <<phase, optColumns, optModel, columns, cellColumn,
                 nextCell, rendered>>
  /\ UNCHANGED selVars

\* remove() whose teardown leaves the listenTo subscriptions in place
RowRemoveStillListening(args) ==
  /\ phase = "ready"
  /\ rowRemoves < MaxRowRemoves
  /\ removeCalls' = [c \in CellIds |->
        removeCalls[c] + Cardinality({j \in 1..Len(cells) : cells[j] = c})]
  /\ children' = DetachAll(children, cells)
  /\ rowRemoves' = rowRemoves + 1
  /\ lastOp' = "rowRemove"
  /\ removeLog' = RemoveCallLog(cells, args)
  /\ UNCHANGED hostOps
  /\ renderStreak' = 0
  /\ lastIndex' = -1
  /\ UNCHANGED <<phase, optColumns, optModel, columns, cells, cellColumn,
                 nextCell, rendered, listening>>
  /\ UNCHANGED selVars

\* remove(): every cell's remove(), then Backbone.View.prototype.remove
RowRemove(args) ==
  /\ phase = "ready"
  /\ rowRemoves < MaxRowRemoves
  /\ removeCalls' = [c \in CellIds |->
        removeCalls[c] + Cardinality({j \in 1..Len(cells) : cells[j] = c})]
  /\ children' = DetachAll(children, cells)
  /\ listening' = FALSE
  /\ rowRemoves' = rowRemoves + 1
  /\ lastOp' = "rowRemove"
  /\ removeLog' = RemoveCallLog(cells, args)
  /\ UNCHANGED hostOps
  /\ renderStreak' = 0
  /\ lastIndex' = -1
  /\ UNCHANGED <<phase, optColumns, optModel, columns, cells, cellColumn,
                 nextCell, rendered>>
  /\ UNCHANGED selVars

\* the host changes the ColumnSet after the Row stopped listening
HostAdd(column, at) ==
  /\ phase = "ready"
  /\ ~listening
  /\ \A j \in 1..Len(columns) : columns[j] # column
  /\ at \in 0..Len(columns)
  /\ columns' = SpliceIn(columns, at, column)
  /\ lastOp' = "hostAdd"
  /\ removeLog' = <<>>
  /\ hostOps < MaxHostOps
  /\ hostOps' = hostOps + 1
  /\ renderStreak' = 0
  /\ UNCHANGED <<phase, optColumns, optModel, cells, cellColumn, nextCell,
                 removeCalls, children, rendered, listening, rowRemoves>>
  /\ lastIndex' = -1
  /\ UNCHANGED selVars

HostRemove(index) ==
  /\ phase = "ready"
  /\ ~listening
  /\ index \in 0..(Len(columns) - 1)
  /\ columns' = SpliceOut(columns, index)
  /\ lastOp' = "hostRemove"
  /\ removeLog' = <<>>
  /\ hostOps < MaxHostOps
  /\ hostOps' = hostOps + 1
  /\ renderStreak' = 0
  /\ UNCHANGED <<phase, optColumns, optModel, cells, cellColumn, nextCell,
                 removeCalls, children, rendered, listening, rowRemoves>>
  /\ lastIndex' = -1
  /\ UNCHANGED selVars

SelIdle ==
  /\ focused = [r \in Rows |-> ""]
  /\ selected = [r \in Rows |-> ""]
  /\ bg = [r \in Rows |-> "rgba(0, 0, 0, 0)"]
  /\ orig = [r \in Rows |-> "rgba(0, 0, 0, 0)"]
  /\ everClicked = FALSE
  /\ selOp = "none"
  /\ selRow = 0
  /\ prevBg = [r \in Rows |-> "rgba(0, 0, 0, 0)"]
  /\ prevSelected = [r \in Rows |-> ""]
  /\ prevFocused = [r \in Rows |-> ""]

InitialColumnLists == {s \in SeqsUpTo(ColumnIds, MaxInitLen) : NoDup(s)}

Init == RowInit /\ SelIdle

Next ==
  \/ \E hc \in BOOLEAN, cols \in InitialColumnLists, hm \in BOOLEAN, ct \in BOOLEAN :
       Initialize(hc, cols, hm, ct)
  \/ \E column \in ColumnIds, at \in 0..NumColumns : AddColumn(column, at)
  \/ \E index \in 0..(NumColumns - 1) : RemoveColumn(index)
  \/ Render
  \/ \E args \in RemoveArgs : RowRemove(args)

Spec == Init /\ [][Next]_vars

\* a Row constructed with both options, one cell per column, not yet rendered
InitConstructed ==
  /\ phase = "ready"
  /\ optColumns = TRUE
  /\ optModel = TRUE
  /\ columns \in InitialColumnLists
  /\ cells = [j \in 1..Len(columns) |-> j]
  /\ cellColumn = [c \in CellIds |-> IF c <= Len(columns) THEN columns[c] ELSE 0]
  /\ nextCell = Len(columns) + 1
  /\ removeCalls = [c \in CellIds |-> 0]
  /\ children = <<>>
  /\ rendered = FALSE
  /\ listening = TRUE
  /\ rowRemoves = 0
  /\ lastOp = "init"
  /\ lastIndex = -1
  /\ renderStreak = 0
  /\ removeLog = <<>>
  /\ hostOps = 0

\* the same Row when the host goes on changing the ColumnSet after remove()
NextUnsubscribed ==
  \/ \E column \in ColumnIds, at \in 0..NumColumns : AddColumn(column, at)
  \/ \E index \in 0..(NumColumns - 1) : RemoveColumn(index)
  \/ Render
  \/ \E args \in RemoveArgs : RowRemove(args)
  \/ \E column \in ColumnIds, at \in 0..NumColumns : HostAdd(column, at)
  \/ \E index \in 0..(NumColumns - 1) : HostRemove(index)

InitReady == InitConstructed /\ SelIdle

\* the same Row when the host also sends remove notifications with a bad index
NextMalformed ==
  \/ \E column \in ColumnIds, at \in 0..NumColumns : AddColumn(column, at)
  \/ \E index \in 0..(NumColumns - 1) : RemoveColumn(index)
  \/ Render
  \/ \E args \in RemoveArgs : RowRemove(args)
  \/ \E index \in (-2)..(NumColumns + 1) : RemovedOutOfRange(index)

SpecMalformed == InitReady /\ [][NextMalformed]_vars

\* the same Row when the host also adds columns two at a time
NextBatch ==
  \/ \E column \in ColumnIds, at \in 0..NumColumns : AddColumn(column, at)
  \/ \E index \in 0..(NumColumns - 1) : RemoveColumn(index)
  \/ Render
  \/ \E args \in RemoveArgs : RowRemove(args)
  \/ \E column1, column2 \in ColumnIds, at \in 0..NumColumns :
       AddColumns(column1, column2, at)

SpecBatch == InitReady /\ [][NextBatch]_vars

SpecUnsubscribed == InitReady /\ [][NextUnsubscribed]_vars

\* ------------------------------------------------ SelectableRow
focusedBgColor == "#F0FFFF"
selectedBgColor == "#FFFFF0"

\* background colours a row may have before any interaction (computed form)
OrigColors == {"rgba(0, 0, 0, 0)", "rgb(255, 255, 255)"}

\* the computed background-color the browser reports once a value is set
Computed(v) ==
  CASE v = "#F0FFFF" -> "rgb(240, 255, 255)"
    [] v = "#FFFFF0" -> "rgb(255, 255, 240)"
    [] v = "transparent" -> "rgba(0, 0, 0, 0)"
    [] OTHER -> v

\* $el.css(name): only background-color is a style property; the data-row-*
\* names are attributes, so reading them as styles gives nothing
Css(row, name) == IF name = "background-color" THEN bg[row] ELSE ""

\* $el.attr(name)
Attr(row, name) ==
  CASE name = "data-row-focused" -> focused[row]
    [] name = "data-row-selected" -> selected[row]
    [] OTHER -> ""

\* a || b on strings
Or(a, b) == IF a # "" THEN a ELSE b

SelFrame(op, row) ==
  /\ selOp' = op
  /\ selRow' = row
  /\ prevBg' = bg
  /\ prevSelected' = selected
  /\ prevFocused' = focused
  /\ UNCHANGED orig
  /\ UNCHANGED rowVars

\* the colour onClick stores in data-row-focused
ClickCapture(row) ==
  Or(Css(row, "data-row-selected"), Or(Css(row, "background-color"), "transparent"))

\* the colour onRightClick stores in data-row-selected
RightClickCapture(row) ==
  Or(Css(row, "data-row-focused"), Or(Css(row, "background-color"), "transparent"))

\* the callback repainting with the stored colour whatever data-row-selected
SiblingBgStored(sib) ==
  LET _drf == Or(Attr(sib, "data-row-focused"), "")
  IN IF _drf # "" THEN Computed(_drf) ELSE bg[sib]

\* what the siblings().each callback of onClick leaves as a sibling's colour
SiblingBg(sib) ==
  LET _drf == Or(Attr(sib, "data-row-focused"), "")
      _drs == Or(Attr(sib, "data-row-selected"), "")
  IN IF _drf # ""
     THEN IF _drs # "" THEN Computed(selectedBgColor) ELSE Computed(_drf)
     ELSE bg[sib]

\* the callback without its removeAttr('data-row-focused')
SiblingFocusedKept(sib) == focused[sib]

\* removeAttr('data-row-focused') inside the same callback
SiblingFocused(sib) ==
  IF Or(Attr(sib, "data-row-focused"), "") # "" THEN "" ELSE focused[sib]

\* clearing data-row-selected without looking at data-row-focused
UnselectBgStored(drf, drs) == Computed(drs)

\* the colour onRightClick restores when it clears data-row-selected
UnselectBg(drf, drs) ==
  IF drf # "" THEN Computed(focusedBgColor) ELSE Computed(drs)

\* onClick without its early return
AlreadyFocusedIgnored(row) == FALSE

\* the re-click guard of onClick
AlreadyFocused(row) == Attr(row, "data-row-focused") # ""

OnClick(row) ==
  /\ IF AlreadyFocused(row)
     THEN UNCHANGED <<focused, bg>>
     ELSE /\ focused' = [r \in Rows |->
                           IF r = row THEN ClickCapture(row) ELSE SiblingFocused(r)]
          /\ bg' = [r \in Rows |->
                      IF r = row THEN Computed(focusedBgColor) ELSE SiblingBg(r)]
  /\ everClicked' = TRUE
  /\ UNCHANGED selected
  /\ SelFrame("click", row)

\* onRightClick clearing the selection of the siblings as onClick does focus
OnRightClickExclusive(row) ==
  LET drf == Or(Attr(row, "data-row-focused"), "")
      drs == Or(Attr(row, "data-row-selected"), "")
  IN /\ IF drs # ""
        THEN /\ bg' = [bg EXCEPT ![row] = UnselectBg(drf, drs)]
             /\ selected' = [selected EXCEPT ![row] = ""]
        ELSE /\ selected' = [r \in Rows |->
                               IF r = row THEN RightClickCapture(row) ELSE ""]
             /\ bg' = IF drf = ""
                      THEN [bg EXCEPT ![row] = Computed(selectedBgColor)]
                      ELSE bg
     /\ UNCHANGED <<focused, everClicked>>
     /\ SelFrame("rclick", row)

OnRightClick(row) ==
  LET drf == Or(Attr(row, "data-row-focused"), "")
      drs == Or(Attr(row, "data-row-selected"), "")
  IN /\ IF drs # ""
        THEN /\ bg' = [bg EXCEPT ![row] = UnselectBg(drf, drs)]
             /\ selected' = [selected EXCEPT ![row] = ""]
        ELSE /\ selected' = [selected EXCEPT ![row] = RightClickCapture(row)]
             /\ bg' = IF drf = ""
                      THEN [bg EXCEPT ![row] = Computed(selectedBgColor)]
                      ELSE bg
     /\ UNCHANGED <<focused, everClicked>>
     /\ SelFrame("rclick", row)

\* SelectableRow instances are constructed and rendered; no Row operation runs
RowQuiet ==
  /\ phase = "ready"
  /\ optColumns = TRUE
  /\ optModel = TRUE
  /\ columns = <<>>
  /\ cells = <<>>
  /\ cellColumn = [c \in CellIds |-> 0]
  /\ nextCell = 1
  /\ removeCalls = [c \in CellIds |-> 0]
  /\ children = <<>>
  /\ rendered = TRUE
  /\ listening = TRUE
  /\ rowRemoves = 0
  /\ lastOp = "render"
  /\ lastIndex = -1
  /\ renderStreak = 0
  /\ removeLog = <<>>
  /\ hostOps = 0

InitSel ==
  /\ RowQuiet
  /\ orig \in [Rows -> OrigColors]
  /\ bg = orig
  /\ focused = [r \in Rows |-> ""]
  /\ selected = [r \in Rows |-> ""]
  /\ everClicked = FALSE
  /\ selOp = "none"
  /\ selRow = 0
  /\ prevBg = orig
  /\ prevSelected = [r \in Rows |-> ""]
  /\ prevFocused = [r \in Rows |-> ""]

NextSel ==
  \/ \E row \in Rows : OnClick(row)
  \/ \E row \in Rows : OnRightClick(row)

SpecSel == InitSel /\ [][NextSel]_vars

\* ================================================================ claims
\* the nodes of a cell sequence, in order
NodesOf(cs) == [j \in 1..Len(cs) |-> El(cs[j])]

\* C1: after every add or remove handler the cell sequence is as long as the
\* ColumnSet and cells[i] is the cell that was made for columns[i].
C1_Alignment ==
  lastOp \in {"add", "remove"} =>
    /\ Len(cells) = Len(columns)
    /\ \A j \in 1..Len(cells) : cellColumn[cells[j]] = columns[j]

\* an add in front of an older cell after an earlier removal
C1_Witness ==
  /\ lastOp = "add"
  /\ Len(cells) = 2
  /\ lastIndex = 0
  /\ \E c \in CellIds : removeCalls[c] = 1

\* C2: on a rendered Row, after every add or remove handler the container's
\* children are exactly the nodes of the cells, one each, in cell order.
C2_DomMatchesCells ==
  (rendered /\ lastOp \in {"add", "remove"}) => children = NodesOf(cells)

\* a removal from a rendered Row that leaves at least two children
C2_Witness ==
  /\ rendered
  /\ lastOp = "remove"
  /\ Len(children) >= 2
  /\ nextCell > Len(cells) + 1

\* C3: adding a column at index k to a rendered N-column Row puts the new node
\* first when k = 0, last when k = N, right before the node formerly at k
\* when 0 < k < N, and keeps the other children in their order.
C3_InsertionPosition ==
  [][(lastOp' = "add" /\ rendered) =>
       LET k == lastIndex'
           N == Len(columns)
           node == El(nextCell)
       IN /\ Len(children') = N + 1
          /\ k = 0 => children'[1] = node
          /\ k = N => children'[N + 1] = node
          /\ (0 < k /\ k < N) =>
               (children'[k + 1] = node /\ children'[k + 2] = children[k + 1])
          /\ Without(children', node) = children]_vars

\* the new node sits strictly inside a rendered three-child row
C3_Witness ==
  /\ rendered
  /\ lastOp = "add"
  /\ lastIndex = 1
  /\ Len(children) = 3
  /\ children[2] = El(nextCell - 1)

\* C4: the remove handler for index k takes exactly the cell formerly at k
\* out of the sequence, calls that cell's remove() once and no other cell's,
\* and shifts the later cells down by one.
C4_RemovalCorrect ==
  [][(lastOp' = "remove") =>
       LET k == lastIndex'
       IN /\ k >= 0 /\ k < Len(cells)
          /\ Len(cells') = Len(cells) - 1
          /\ \A j \in 1..k : cells'[j] = cells[j]
          /\ \A j \in (k + 1)..Len(cells') : cells'[j] = cells[j + 1]
          /\ removeCalls' = [removeCalls EXCEPT ![cells[k + 1]] = @ + 1]]_vars

\* the first of three cells was removed
C4_Witness ==
  /\ lastOp = "remove"
  /\ lastIndex = 0
  /\ Len(cells) = 2
  /\ \E c \in CellIds : removeCalls[c] = 1 /\ cellColumn[c] # 0

\* C8 (as claimed): constructing a Row without options.columns or without
\* options.model fails and creates no cell.
C8_ConstructionFails ==
  (lastOp = "init" /\ (~optColumns \/ ~optModel)) =>
    (phase = "failed" /\ nextCell = 1)

C10_RenderIdempotent ==
  [][(lastOp = "render" /\ lastOp' = "render") =>
       (children' = children /\ children' = NodesOf(cells'))]_vars

\* two render() calls in a row on a Row with three cells
C10_Witness ==
  /\ lastOp = "render"
  /\ renderStreak = 2
  /\ Len(children) = 3

FocusedRows == {r \in Rows : focused[r] # ""}

\* C5: after any primary and secondary clicks on sibling rows that start
\* neutral at most one row carries data-row-focused, and exactly one does once
\* some row has had a primary click.
C5_FocusExclusive ==
  /\ Cardinality(FocusedRows) <= 1
  /\ everClicked => Cardinality(FocusedRows) = 1

\* a primary click moved the focus away from another row
C5_Witness ==
  /\ selOp = "click"
  /\ \E r \in Rows : r # selRow /\ prevFocused[r] # "" /\ focused[r] = ""
  /\ focused[selRow] # ""

\* C6 (as claimed): a row with neither marker shows its original
\* background colour.
C6_NeutralShowsOriginal ==
  \A r \in Rows : (focused[r] = "" /\ selected[r] = "") => bg[r] = orig[r]

\* C7: a secondary click directly after a secondary click on the same row
\* leaves the row with the colour it showed before the first of the two and
\* with data-row-selected present exactly when it was present then.
C7_DoubleRightClick ==
  [][(selOp = "rclick" /\ selOp' = "rclick" /\ selRow' = selRow) =>
       /\ bg'[selRow] = prevBg[selRow]
       /\ (selected'[selRow] # "") = (prevSelected[selRow] # "")]_vars

\* two secondary clicks came back to a row that is focused and selected
C7_Witness ==
  /\ selOp = "rclick"
  /\ prevSelected[selRow] = ""
  /\ selected[selRow] # ""
  /\ focused[selRow] # ""
  /\ prevBg = bg
  /\ \E r \in Rows : r # selRow /\ selected[r] # ""

\* C11: a primary click on a row that already carries data-row-focused
\* changes no marker and no colour, on that row or on any sibling.
C11_ReclickNoOp ==
  [][(selOp' = "click" /\ focused[selRow'] # "") =>
       (focused' = focused /\ selected' = selected /\ bg' = bg)]_vars

\* the focused row was clicked again while a sibling is selected
C11_Witness ==
  /\ selOp = "click"
  /\ prevFocused[selRow] # ""
  /\ \E r \in Rows : r # selRow /\ selected[r] # ""

\* C13 (as claimed): onClick on an unfocused row that carries
\* data-row-selected stores that marker's value in data-row-focused, and
\* onRightClick on an unselected row that carries data-row-focused stores
\* that marker's value in data-row-selected.
C13_CapturePrefersMarker ==
  [][/\ (selOp' = "click" /\ focused[selRow'] = "" /\ selected[selRow'] # "") =>
          focused'[selRow'] = selected[selRow']
     /\ (selOp' = "rclick" /\ selected[selRow'] = "" /\ focused[selRow'] # "") =>
          selected'[selRow'] = focused[selRow']]_vars

\* C14: every row carrying data-row-focused shows the focused colour, and
\* every row carrying data-row-selected but not data-row-focused shows the
\* selected colour.
C14_ColourAgreesWithMarkers ==
  \A r \in Rows :
    /\ focused[r] # "" => bg[r] = Computed(focusedBgColor)
    /\ (selected[r] # "" /\ focused[r] = "") => bg[r] = Computed(selectedBgColor)

\* a selected row has just lost the focus to a sibling
C14_Witness ==
  /\ selOp = "click"
  /\ \E r \in Rows :
       /\ r # selRow
       /\ prevFocused[r] # ""
       /\ focused[r] = ""
       /\ selected[r] # ""
       /\ prevBg[r] = Computed(focusedBgColor)

\* C17: a secondary click changes no row's data-row-focused and changes
\* neither data-row-selected nor the colour of any sibling.
C17_RightClickLocal ==
  [][(selOp' = "rclick") =>
       /\ focused' = focused
       /\ \A r \in Rows :
            r # selRow' => (selected'[r] = selected[r] /\ bg'[r] = bg[r])]_vars

\* a secondary click selected a row next to a selected and a focused sibling
C17_Witness ==
  /\ selOp = "rclick"
  /\ selected[selRow] # ""
  /\ prevSelected[selRow] = ""
  /\ \E r \in Rows : r # selRow /\ selected[r] # "" /\ prevSelected[r] # ""
  /\ \E r \in Rows : r # selRow /\ focused[r] # ""

\* C12: remove(args) calls the remove() of every cell of the sequence
\* exactly once, each with the arguments remove() was given, and all of them
\* before the base view teardown.
C12_RemoveForwardsThenTearsDown ==
  lastOp = "rowRemove" =>
    LET n == Len(cells)
    IN /\ Len(removeLog) = n + 1
       /\ removeLog[n + 1].target = 0
       /\ \A j \in 1..n :
            /\ removeLog[j].target # 0
            /\ removeLog[j].args = removeLog[n + 1].args
       /\ \A k \in 1..n :
            Cardinality({j \in 1..n : removeLog[j].target = cells[k]}) = 1

\* remove("silent") on a Row holding two cells
C12_Witness ==
  /\ lastOp = "rowRemove"
  /\ Len(cells) = 2
  /\ Len(removeLog) = 3
  /\ removeLog[3].args = <<"silent">>

\* C19: once remove() has returned, a change of the ColumnSet creates no
\* cell, calls no cell's remove() and leaves the cell sequence and the
\* container as they are.
C19_DeafAfterRemove ==
  [][(rowRemoves >= 1 /\ columns' # columns) =>
       /\ cells' = cells
       /\ children' = children
       /\ nextCell' = nextCell
       /\ cellColumn' = cellColumn
       /\ removeCalls' = removeCalls]_vars

\* the host added a column to the set of a removed Row that had cells
C19_Witness ==
  /\ lastOp = "hostAdd"
  /\ rowRemoves >= 1
  /\ Len(cells) >= 1
  /\ Len(columns) > Len(cells)

\* C15: a remove notification whose index is negative or not below the
\* length of the cell sequence ends in an error, calls no cell's remove()
\* and leaves the cell sequence as it is.
C15_BadIndexFailsLoudly ==
  [][(lastOp' \in {"remove", "removeError"}
        /\ (lastIndex' < 0 \/ lastIndex' >= Len(cells))) =>
       /\ lastOp' = "removeError"
       /\ removeCalls' = removeCalls
       /\ cells' = cells]_vars

\* index -1 was refused by a Row that holds cells, one of them made later
C15_Witness ==
  /\ lastOp = "removeError"
  /\ lastIndex = -1
  /\ Len(cells) >= 2
  /\ nextCell > Len(cells) + 1

\* C16 (as claimed): after the last notification of a two-column add on a
\* rendered Row, the cells and the container's children are in ColumnSet
\* order, one of each per column.
C16_BatchAddOrdered ==
  (rendered /\ lastOp = "addBatch") =>
    /\ Len(cells) = Len(columns)
    /\ \A j \in 1..Len(cells) : cellColumn[cells[j]] = columns[j]
    /\ children = NodesOf(cells)

\* C18: render() creates, removes and reorders no cell and calls no cell's
\* remove(); whenever it runs, it leaves the container's children equal to
\* the nodes of the current cell sequence, in order.
C18_RenderKeepsCells ==
  [][(lastOp' = "render") =>
       /\ cells' = cells
       /\ nextCell' = nextCell
       /\ cellColumn' = cellColumn
       /\ removeCalls' = removeCalls
       /\ children' = NodesOf(cells)]_vars

\* a first render() after columns were added and removed
C18_Witness ==
  /\ lastOp = "render"
  /\ renderStreak = 1
  /\ Len(cells) >= 2
  /\ nextCell > Len(cells) + 1
  /\ \E c \in CellIds : removeCalls[c] = 1

====
